---- MODULE Spec2Model ----
(***************************************************************************)
(* Role-gated document question answering (FinSolve RAG chatbot).          *)
(*                                                                         *)
(* Four specifications are given.                                          *)
(*   Spec       the served program: the /chat/query endpoint of            *)
(*              src/api/main.py and query_rag of src/rag_pipeline.py,      *)
(*              one request at a time, step by step.                       *)
(*   SpecChain  the stages of the LCEL chain of query_rag                  *)
(*              (_get_filtered_docs, the context/sources stage) applied    *)
(*              as pure functions to every role, question and index        *)
(*              content within the bounds.                                 *)
(*   SpecConcurrent  two query threads running the chain stages side by     *)
(*              side over the same persisted index.                        *)
(*   SpecIngest the steps of ingest_data of src/ingest_data.py, with a     *)
(*              query checking for and loading the index meanwhile.        *)
(***************************************************************************)
EXTENDS Integers, Sequences, FiniteSets, TLC

VARIABLES
    \* ---- the process environment and the disk
    env_key,        \* os.environ.get("OPENAI_API_KEY"): None (unset), "" or a key
    store_exists,   \* os.path.exists(VECTOR_STORE_PATH)
    vector_store,   \* the chunks of the persisted FAISS index, in stored order
    binding,        \* what the name query_rag is bound to in src/api/main.py
    provider,       \* what a call to the embedding provider meets: an answer, a
                    \* timeout raised by the client library, or silence
    \* ---- the request in flight (Spec)
    pc,             \* position of the request
    entry,          \* "api": POST /chat/query; "direct": a caller of query_rag
    request,        \* [query, role] of the request
    rag_calls,      \* the keyword arguments of every query_rag call of the request
    rag_outcome,    \* how query_rag ended: [kind |-> "none" | "returned" | "raised", ...]
    load_attempts,  \* FAISS.load_local calls made for the request
    llm_calls,      \* generator invocations made for the request
    response,       \* the HTTP response of the endpoint, [kind |-> "none"] while there is none
    \* ---- one run of the chain stages (SpecChain)
    chain_pc,       \* "start", "filtered" (first stage done), "prepared" (second stage done)
    input_dict,     \* the chain input {"question", "role"}
    allowed_sources,\* get_allowed_documents(role) as looked up by the run
    search_calls,   \* retriever.get_relevant_documents calls made by the run
    filtered_docs,  \* what _get_filtered_docs returned
    stage2,         \* output of the second stage: [context, question, sources]
    \* ---- processes running side by side (SpecConcurrent, SpecIngest)
    threads,        \* per query thread: the locals of its query_rag call
    resources,      \* the files under resources/data, by path
    ingest,         \* the ingest_data run: its position, locals and outcome
    disk,           \* the files index.faiss and index.pkl under VECTOR_STORE_PATH
    reader          \* a query_rag call checking for and loading the index meanwhile

envVars   == <<env_key, store_exists, vector_store, binding, provider>>
reqVars   == <<pc, entry, request, rag_calls, rag_outcome, load_attempts, llm_calls, response>>
chainVars == <<chain_pc, input_dict, allowed_sources, search_calls, filtered_docs, stage2>>
procVars  == <<threads, resources, ingest, disk, reader>>
vars      == <<envVars, reqVars, chainVars, procVars>>

\* Python's None, and dict.get(key, default)
None == "<None>"
Get(d, k, default) == IF k \in DOMAIN d THEN d[k] ELSE default

Range(s) == {s[i] : i \in 1..Len(s)}

(***************************************************************************)
(* src/rbac_config.py: the document catalogue                              *)
(***************************************************************************)
BASE_PATH == "resources/data"

\* os.path.join(BASE_PATH, rel) on a POSIX path
Join(base, rel) == base \o "/" \o rel

ENGINEERING_FILES == << Join(BASE_PATH, "engineering/engineering_master_doc.md") >>

FINANCE_FILES ==
    << Join(BASE_PATH, "finance/financial_summary.md"),
       Join(BASE_PATH, "finance/quarterly_financial_report.md") >>

GENERAL_FILES == << Join(BASE_PATH, "general/employee_handbook.md") >>

HR_FILES == << Join(BASE_PATH, "hr/hr_data.csv") >>

MARKETING_FILES ==
    << Join(BASE_PATH, "marketing/market_report_q4_2024.md"),
       Join(BASE_PATH, "marketing/marketing_report_2024.md"),
       Join(BASE_PATH, "marketing/marketing_report_q1_2024.md"),
       Join(BASE_PATH, "marketing/marketing_report_q2_2024.md"),
       Join(BASE_PATH, "marketing/marketing_report_q3_2024.md") >>

ALL_FILES ==
    ENGINEERING_FILES \o FINANCE_FILES \o GENERAL_FILES \o HR_FILES \o MARKETING_FILES

\* faulty variants of the role mapping (hr_team without the general files; executives reduced to the general files)
ROLE_PERMISSIONS_HrWithoutGeneral ==
    [ finance_team |-> FINANCE_FILES \o
          << Join(BASE_PATH, "marketing/marketing_report_2024.md"),
             Join(BASE_PATH, "general/employee_handbook.md") >>,
      marketing_team |-> MARKETING_FILES,
      hr_team |-> HR_FILES,
      engineering_department |-> ENGINEERING_FILES,
      c_level_executives |-> ALL_FILES,
      employee_level |-> GENERAL_FILES ]

ROLE_PERMISSIONS_ExecutivesGeneralOnly ==
    [ finance_team |-> FINANCE_FILES \o
          << Join(BASE_PATH, "marketing/marketing_report_2024.md"),
             Join(BASE_PATH, "general/employee_handbook.md") >>,
      marketing_team |-> MARKETING_FILES,
      hr_team |-> HR_FILES \o GENERAL_FILES,
      engineering_department |-> ENGINEERING_FILES,
      c_level_executives |-> GENERAL_FILES,
      employee_level |-> GENERAL_FILES ]

\* faulty variant: the engineering department is given a file ingestion does
\* not read
ROLE_PERMISSIONS_EngineeringUnlisted ==
    [ finance_team |-> FINANCE_FILES \o
          << Join(BASE_PATH, "marketing/marketing_report_2024.md"),
             Join(BASE_PATH, "general/employee_handbook.md") >>,
      marketing_team |-> MARKETING_FILES,
      hr_team |-> HR_FILES \o GENERAL_FILES,
      engineering_department |-> ENGINEERING_FILES \o << Join(BASE_PATH, "engineering/roadmap.md") >>,
      c_level_executives |-> ALL_FILES,
      employee_level |-> GENERAL_FILES ]

ROLE_PERMISSIONS ==
    [ finance_team |-> FINANCE_FILES \o
          << Join(BASE_PATH, "marketing/marketing_report_2024.md"),
             Join(BASE_PATH, "general/employee_handbook.md") >>,
      marketing_team |-> MARKETING_FILES,
      hr_team |-> HR_FILES \o GENERAL_FILES,
      engineering_department |-> ENGINEERING_FILES,
      c_level_executives |-> ALL_FILES,
      employee_level |-> GENERAL_FILES ]

\* ROLE_PERMISSIONS.get(role, [])
get_allowed_documents(role) == Get(ROLE_PERMISSIONS, role, <<>>)

(***************************************************************************)
(* Python's order on str (by code point), and sorted(list(set(...)))       *)
(***************************************************************************)
\* the characters of the source identifiers, in code point order
Alphabet ==
    << ".", "/", "0", "1", "2", "3", "4", "5", "6", "7", "8", "9", "_",
       "a", "b", "c", "d", "e", "f", "g", "h", "i", "j", "k", "l", "m",
       "n", "o", "p", "q", "r", "s", "t", "u", "v", "w", "x", "y", "z" >>

Ord(c) == CHOOSE i \in 1..Len(Alphabet) : Alphabet[i] = c

RECURSIVE StrLessFrom(_, _, _)
StrLessFrom(a, b, i) ==
    IF i > Len(b) THEN FALSE
    ELSE IF i > Len(a) THEN TRUE
    ELSE LET ca == Ord(SubSeq(a, i, i))
             cb == Ord(SubSeq(b, i, i))
         IN  IF ca # cb THEN ca < cb ELSE StrLessFrom(a, b, i + 1)

\* a < b on Python strings
StrLess(a, b) == StrLessFrom(a, b, 1)

RECURSIVE sorted(_)
sorted(S) ==
    IF S = {} THEN <<>>
    ELSE LET m == CHOOSE x \in S : \A y \in S \ {x} : StrLess(x, y)
         IN  <<m>> \o sorted(S \ {m})

(***************************************************************************)
(* The index: LangChain Documents and the similarity search                *)
(***************************************************************************)
\* Document(page_content=..., metadata=...)
Document(content, meta) == [page_content |-> content, metadata |-> meta]

\* The chunks an index is built from in the model: one per department as
\* ingest_data labels them (a 'row' for the rows of hr_data.csv), a chunk of a
\* file no role lists, and a chunk whose metadata has no 'source'.
SampleChunks ==
    { Document("handbook", [source |-> GENERAL_FILES[1]]),
      Document("hr row", [source |-> HR_FILES[1], row |-> 1]),
      Document("hr row", [source |-> HR_FILES[1], row |-> 2]),
      Document("fin summary", [source |-> FINANCE_FILES[1]]),
      Document("mkt 2024", [source |-> MARKETING_FILES[2]]),
      Document("mkt q4", [source |-> MARKETING_FILES[1]]),
      Document("eng", [source |-> ENGINEERING_FILES[1]]),
      Document("unlisted", [source |-> Join(BASE_PATH, "other/unlisted.md")]),
      Document("anonymous", [row |-> 9]) }

\* the questions asked; the embedding model is a black box, so the similarity
\* order of a question is a fixed permutation of the stored chunks:
\* the first question ranks them in stored order, the second in reverse.
Questions == {"What is the leave policy?", "What are the company profits?"}

Reverse(s) == [i \in 1..Len(s) |-> s[Len(s) + 1 - i]]

Ranked(store, question) ==
    IF question = "What is the leave policy?" THEN store ELSE Reverse(store)

\* search_kwargs={"k": 10}
SEARCH_K == 10

\* faulty variant: the retriever returns the whole ranking
get_relevant_documents_NoCutoff(store, question) == Ranked(store, question)

\* retriever.get_relevant_documents(question): the k best-ranked chunks
get_relevant_documents(store, question) ==
    LET ranked == Ranked(store, question)
    IN  SubSeq(ranked, 1, IF Len(ranked) < SEARCH_K THEN Len(ranked) ELSE SEARCH_K)

(***************************************************************************)
(* src/rag_pipeline.py: the stages of the chain                            *)
(***************************************************************************)
\* faulty variants of _get_filtered_docs (no filtering; searching before the allow-list is looked at)
_get_filtered_docs_NoFilter(d, store) ==
    LET allowed == get_allowed_documents(d.role)
    IN  IF allowed = <<>>
        THEN [docs |-> <<>>, searches |-> 0]
        ELSE [docs |-> get_relevant_documents(store, d.question), searches |-> 1]

_get_filtered_docs_SearchFirst(d, store) ==
    LET allowed   == get_allowed_documents(d.role)
        retrieved == get_relevant_documents(store, d.question)
    IN  [docs |-> SelectSeq(retrieved,
                     LAMBDA doc : Get(doc.metadata, "source", None) \in Range(allowed)),
         searches |-> 1]

\* _get_filtered_docs(input_dict) with the retriever over `store`: the list it
\* returns and the number of similarity searches it made
_get_filtered_docs(d, store) ==
    LET allowed == get_allowed_documents(d.role)
    IN  IF allowed = <<>>
        THEN [docs |-> <<>>, searches |-> 0]
        ELSE LET retrieved == get_relevant_documents(store, d.question)
             IN  [docs |-> SelectSeq(retrieved,
                              LAMBDA doc : Get(doc.metadata, "source", None) \in Range(allowed)),
                  searches |-> 1]

NO_DOCS_CONTEXT == "No documents found or provided for context."

\* faulty variant: the row number is left out of the header
FormatDoc_NoRow(doc) ==
    "Source: " \o Get(doc.metadata, "source", "Unknown Source") \o "\n" \o doc.page_content

\* one block of the context: f"Source: {source}\n{content}"
FormatDoc(doc) ==
    LET source == Get(doc.metadata, "source", "Unknown Source")
        shown  == IF "row" \in DOMAIN doc.metadata
                  THEN source \o " (Row: " \o ToString(doc.metadata.row) \o ")"
                  ELSE source
    IN  "Source: " \o shown \o "\n" \o doc.page_content

RECURSIVE JoinBlocks(_)
JoinBlocks(blocks) ==
    IF Len(blocks) = 1 THEN blocks[1]
    ELSE blocks[1] \o "\n\n" \o JoinBlocks(Tail(blocks))

format_docs_for_context(docs) ==
    IF docs = <<>> THEN NO_DOCS_CONTEXT
    ELSE JoinBlocks([i \in 1..Len(docs) |-> FormatDoc(docs[i])])

\* sorted(list(set(doc.metadata['source'] for doc in docs if 'source' in doc.metadata)))
SourcesOf(docs) ==
    sorted({docs[i].metadata.source :
              i \in {j \in 1..Len(docs) : "source" \in DOMAIN docs[j].metadata}})

\* the second stage of lcel_chain
PrepareStage(x) ==
    [ context  |-> format_docs_for_context(x.filtered_docs),
      question |-> x.original_input.question,
      sources  |-> SourcesOf(x.filtered_docs) ]

(***************************************************************************)
(* Inputs                                                                  *)
(***************************************************************************)
\* the longest index content SpecChain enumerates
MaxLen == 3

\* every index content of at most MaxLen chunks
Stores == UNION {[1..n -> SampleChunks] : n \in 0..MaxLen}

\* index contents one chunk longer than the retriever's k, made of handbook
\* and finance chunks
LongStores ==
    [ 1..(SEARCH_K + 1) ->
        { Document("handbook", [source |-> GENERAL_FILES[1]]),
          Document("fin summary", [source |-> FINANCE_FILES[1]]) } ]

\* the configured roles and a role that is no key of the mapping
RoleInputs == DOMAIN ROLE_PERMISSIONS \cup {"unknown_role"}

NoRequest == [query |-> None, role |-> None]
NoOutcome == [kind |-> "none"]
NoResponse == [kind |-> "none"]
NoInput == [question |-> None, role |-> None]
NoStage2 == [context |-> None, question |-> None, sources |-> <<>>]

\* the query threads: the ids, and a thread that serves no query
Threads == {"thread-1", "thread-2"}
IdleThread ==
    [ pc |-> "idle", input_dict |-> NoInput, vector_store |-> <<>>,
      allowed_sources |-> <<>>, filtered_docs |-> <<>>, sources |-> <<>> ]

\* a file of the index directory: not there, being written, or written by the
\* build of the given chunks
Absent == [state |-> "absent"]
Partial == [state |-> "partial"]
Complete(build) == [state |-> "complete", build |-> build]

\* the index directory as the persisted index (exists, store) stands for
DiskOf(exists, store) ==
    IF exists
    THEN [faiss |-> Complete(store), pkl |-> Complete(store)]
    ELSE [faiss |-> Absent, pkl |-> Absent]

\* no file of the catalogue is on disk
NoResources == [path \in Range(ALL_FILES) |-> [kind |-> "missing"]]

IdleIngest ==
    [ pc |-> "idle", all_docs_content |-> <<>>, chunks |-> <<>>,
      provider |-> "untried", outcome |-> NoOutcome ]
IdleReader == [pc |-> "idle", observed |-> [kind |-> "none"]]

\* no ingestion runs
NoBatch ==
    /\ resources = NoResources
    /\ ingest = IdleIngest
    /\ disk = DiskOf(store_exists, vector_store)
    /\ reader = IdleReader

IdleRequest ==
    /\ pc = "idle"
    /\ entry = None
    /\ request = NoRequest
    /\ rag_calls = <<>>
    /\ rag_outcome = NoOutcome
    /\ load_attempts = 0
    /\ llm_calls = 0
    /\ response = NoResponse

ChainAtStart ==
    /\ chain_pc = "start"
    /\ input_dict = NoInput
    /\ allowed_sources = <<>>
    /\ search_calls = 0
    /\ filtered_docs = <<>>
    /\ stage2 = NoStage2

(***************************************************************************)
(* SpecChain: the chain stages run on every input                          *)
(***************************************************************************)
InitChain ==
    /\ env_key = "test_api_key"
    /\ store_exists = TRUE
    /\ vector_store \in Stores \cup LongStores
    /\ binding = "rag_pipeline"
    /\ provider = "responds"
    /\ threads = [t \in Threads |-> IdleThread]
    /\ NoBatch
    /\ IdleRequest
    /\ ChainAtStart

\* first stage of lcel_chain on {"question": question, "role": role}
FilterStage(question, role) ==
    /\ chain_pc \in {"start", "prepared"}
    /\ LET d == [question |-> question, role |-> role]
           r == _get_filtered_docs(d, vector_store)
       IN  /\ input_dict' = d
           /\ allowed_sources' = get_allowed_documents(role)
           /\ search_calls' = r.searches
           /\ filtered_docs' = r.docs
    /\ stage2' = NoStage2
    /\ chain_pc' = "filtered"
    /\ UNCHANGED <<envVars, reqVars, procVars>>

\* second stage of lcel_chain
PrepareStep ==
    /\ chain_pc = "filtered"
    /\ stage2' = PrepareStage([filtered_docs |-> filtered_docs, original_input |-> input_dict])
    /\ chain_pc' = "prepared"
    /\ UNCHANGED <<envVars, reqVars, input_dict, allowed_sources, search_calls, filtered_docs, procVars>>

NextChain ==
    \/ \E question \in Questions, role \in RoleInputs : FilterStage(question, role)
    \/ PrepareStep

SpecChain == InitChain /\ [][NextChain]_vars

(***************************************************************************)
(* Spec: the endpoint and query_rag, one request at a time                 *)
(***************************************************************************)
VECTOR_STORE_PATH == "vector_store/faiss_index"

\* Python truthiness of an optional string: `if not value`
Truthy(v) == v \notin {None, ""}

\* the values OPENAI_API_KEY takes: unset, empty, set
EnvKeys == {None, "", "test_api_key"}

\* query_rag as src/api/main.py finds it: imported from src.rag_pipeline, the
\* fallback defined when that import fails, or patched by the API tests
Bindings == {"rag_pipeline", "fallback", "patched"}

\* the index contents Spec starts from
SpecStores ==
    { <<>>,
      << Document("fin summary", [source |-> FINANCE_FILES[1]]),
         Document("handbook", [source |-> GENERAL_FILES[1]]),
         Document("hr row", [source |-> HR_FILES[1], row |-> 1]),
         Document("handbook", [source |-> GENERAL_FILES[1]]) >> }

\* the dictionary the fallback query_rag returns
FallbackResult ==
    [ answer |-> "Error: RAG pipeline not loaded.", sources |-> <<>>,
      error |-> "RAG pipeline import failed." ]

\* return values given to the patched query_rag: those of the API tests, one
\* with an empty error and one without an answer
PatchedResults ==
    { [answer |-> "This is the employee handbook content.",
       sources |-> << Join(BASE_PATH, "general/employee_handbook.md") >>],
      [answer |-> "Information not available in your accessible documents.",
       sources |-> <<>>],
      [answer |-> "The company profits are $X million.",
       sources |-> << Join(BASE_PATH, "finance/financial_summary.md") >>],
      [answer |-> "", sources |-> <<>>, error |-> "Internal RAG error"],
      [answer |-> "partial", sources |-> <<>>, error |-> ""],
      [sources |-> << Join(BASE_PATH, "general/employee_handbook.md") >>] }

\* what an exception of the index load says
LoadErrors == {"could not open index.faiss", "model download failed", "Read timed out."}

\* what the call to the embedding provider meets.  query_rag passes no
\* timeout, so what happens when the provider is silent is up to the client
\* library: it raises a timeout of its own, or the call does not return.
Providers == {"responds", "times_out", "silent"}

Returned(value) == [kind |-> "returned", value |-> value]
Raised(type, message) == [kind |-> "raised", type |-> type, message |-> message]
HTTPException(status_code, detail) ==
    [kind |-> "http", status |-> status_code, detail |-> detail]
ChatQueryResponse(answer, sources) ==
    [kind |-> "http", status |-> 200, answer |-> answer, sources |-> sources, error |-> None]

\* where control goes when query_rag ends
AfterQueryRag == IF entry = "api" THEN "handle_result" ELSE "done"

Init ==
    /\ env_key \in EnvKeys
    /\ store_exists \in BOOLEAN
    /\ vector_store \in SpecStores
    /\ binding \in Bindings
    /\ provider \in Providers
    /\ IdleRequest
    /\ ChainAtStart
    /\ threads = [t \in Threads |-> IdleThread]
    /\ NoBatch

\* the environment is changed between two requests
SetEnvKey(v) ==
    /\ pc \in {"idle", "done"}
    /\ v # env_key
    /\ env_key' = v
    /\ pc' = "idle"
    /\ entry' = None
    /\ request' = NoRequest
    /\ rag_calls' = <<>>
    /\ rag_outcome' = NoOutcome
    /\ load_attempts' = 0
    /\ llm_calls' = 0
    /\ response' = NoResponse
    /\ UNCHANGED <<store_exists, vector_store, binding, provider, chainVars, procVars>>

\* POST /chat/query {"query": query, "role": role} arrives
ReceiveChatQuery(query, role) ==
    /\ pc \in {"idle", "done"}
    /\ pc' = "handle_chat_query"
    /\ entry' = "api"
    /\ request' = [query |-> query, role |-> role]
    /\ rag_calls' = <<>>
    /\ rag_outcome' = NoOutcome
    /\ load_attempts' = 0
    /\ llm_calls' = 0
    /\ response' = NoResponse
    /\ UNCHANGED <<envVars, chainVars, procVars>>

\* the keyword arguments of the endpoint's query_rag call
QueryRagArgs(req) == [user_query |-> req.query, user_role |-> req.role]

\* query_rag(query, role) of src/rag_pipeline.py is called by another caller
CallQueryRag(query, role) ==
    /\ pc \in {"idle", "done"}
    /\ pc' = "query_rag"
    /\ entry' = "direct"
    /\ request' = [query |-> query, role |-> role]
    /\ rag_calls' = << [user_query |-> query, user_role |-> role] >>
    /\ rag_outcome' = NoOutcome
    /\ load_attempts' = 0
    /\ llm_calls' = 0
    /\ response' = NoResponse
    /\ UNCHANGED <<envVars, chainVars, procVars>>

\* faulty variant: the endpoint checks the index before the credential
EndpointGuard_StoreFirst(key, exists) ==
    IF ~exists
    THEN HTTPException(500, "Server error: Vector store not found at "
                              \o VECTOR_STORE_PATH \o ". Please run ingestion.")
    ELSE IF ~Truthy(key)
    THEN HTTPException(500, "Server configuration error: OPENAI_API_KEY not set.")
    ELSE NoResponse

\* faulty variant: the endpoint leaves the index check to query_rag
EndpointGuard_NoStoreCheck(key, exists) ==
    IF ~Truthy(key)
    THEN HTTPException(500, "Server configuration error: OPENAI_API_KEY not set.")
    ELSE NoResponse

\* the two guards of handle_chat_query: the HTTPException raised, or NoResponse
EndpointGuard(key, exists) ==
    IF ~Truthy(key)
    THEN HTTPException(500, "Server configuration error: OPENAI_API_KEY not set.")
    ELSE IF ~exists
    THEN HTTPException(500, "Server error: Vector store not found at "
                              \o VECTOR_STORE_PATH \o ". Please run ingestion.")
    ELSE NoResponse

\* handle_chat_query up to its call of query_rag
handle_chat_query ==
    /\ pc = "handle_chat_query"
    /\ LET guard == EndpointGuard(env_key, store_exists)
       IN  IF guard # NoResponse
           THEN /\ response' = guard
                /\ pc' = "done"
                /\ UNCHANGED <<rag_calls, rag_outcome, procVars>>
           ELSE /\ rag_calls' = Append(rag_calls, QueryRagArgs(request))
                /\ response' = response
                /\ CASE binding = "rag_pipeline" ->
                            /\ pc' = "query_rag"
                            /\ rag_outcome' = rag_outcome
                     [] binding = "fallback" ->
                            /\ pc' = "handle_result"
                            /\ rag_outcome' = Returned(FallbackResult)
                     [] binding = "patched" ->
                            /\ pc' = "handle_result"
                            /\ \E result \in PatchedResults : rag_outcome' = Returned(result)
    /\ UNCHANGED <<envVars, entry, request, load_attempts, llm_calls, chainVars, procVars>>

\* the credential check of query_rag: the early return, or NoOutcome
QueryRagKeyCheck(key) ==
    IF ~Truthy(key)
    THEN Returned([answer |-> "Error: OPENAI_API_KEY environment variable not set. Cannot query the LLM.",
                   sources |-> <<>>])
    ELSE NoOutcome

\* query_rag: the credential check
qr_check_key ==
    /\ pc = "query_rag"
    /\ LET early == QueryRagKeyCheck(env_key)
       IN  /\ rag_outcome' = early
           /\ pc' = IF early # NoOutcome THEN AfterQueryRag ELSE "qr_check_store"
    /\ UNCHANGED <<envVars, entry, request, rag_calls, load_attempts, llm_calls, response, chainVars, procVars>>

\* query_rag: the index existence check
qr_check_store ==
    /\ pc = "qr_check_store"
    /\ IF ~store_exists
       THEN /\ rag_outcome' = Returned(
                   [answer |-> "Error: Vector store not found at " \o VECTOR_STORE_PATH
                                 \o ". Please run the ingestion script first.",
                    sources |-> <<>>])
            /\ pc' = AfterQueryRag
       ELSE /\ rag_outcome' = rag_outcome
            /\ pc' = "qr_load"
    /\ UNCHANGED <<envVars, entry, request, rag_calls, load_attempts, llm_calls, response, chainVars, procVars>>

\* query_rag: HuggingFaceEmbeddings(...) and FAISS.load_local(...), which
\* succeed or raise; the call is made without a timeout and does not return
\* while the provider is silent
qr_load ==
    /\ pc = "qr_load"
    /\ provider # "silent"
    /\ load_attempts' = load_attempts + 1
    /\ \E ok \in BOOLEAN :
         IF ok /\ provider = "responds"
         THEN /\ rag_outcome' = rag_outcome
              /\ pc' = "qr_build_chain"
         ELSE /\ \E e \in LoadErrors :
                    /\ provider = "times_out" => e = "Read timed out."
                    /\ rag_outcome' = Returned(
                          [answer |-> "Error loading vector store or embeddings: " \o e,
                           sources |-> <<>>])
              /\ pc' = AfterQueryRag
    /\ UNCHANGED <<envVars, entry, request, rag_calls, llm_calls, response, chainVars, procVars>>

\* query_rag: the retriever, the prompt, the llm object and the construction
\* of lcel_chain.  The chain expression calls StringOutputParser(), a name the
\* module never binds (it imports StrOutputParser), outside any try block:
\* the construction raises NameError and query_rag ends there.
qr_build_chain ==
    /\ pc = "qr_build_chain"
    /\ rag_outcome' = Raised("NameError", "name 'StringOutputParser' is not defined")
    /\ pc' = AfterQueryRag
    /\ UNCHANGED <<envVars, entry, request, rag_calls, load_attempts, llm_calls, response, chainVars, procVars>>

\* faulty variant: the endpoint has no handler for what query_rag raises
ResponseFor_Propagate(outcome) ==
    IF outcome.kind = "returned"
    THEN IF Truthy(Get(outcome.value, "error", None))
         THEN HTTPException(500, outcome.value.error)
         ELSE ChatQueryResponse(Get(outcome.value, "answer", "No answer found."),
                                Get(outcome.value, "sources", <<>>))
    ELSE [kind |-> "unhandled", type |-> outcome.type, message |-> outcome.message]

\* faulty variant: the endpoint ignores the error field of the result
ResponseFor_IgnoreError(outcome) ==
    IF outcome.kind = "returned"
    THEN ChatQueryResponse(Get(outcome.value, "answer", "No answer found."),
                           Get(outcome.value, "sources", <<>>))
    ELSE HTTPException(500, "An unexpected internal error occurred. Please check server logs.")

\* faulty variant: the endpoint answers without the sources
ResponseFor_DropSources(outcome) ==
    IF outcome.kind = "returned"
    THEN IF Truthy(Get(outcome.value, "error", None))
         THEN HTTPException(500, outcome.value.error)
         ELSE ChatQueryResponse(Get(outcome.value, "answer", "No answer found."), <<>>)
    ELSE HTTPException(500, "An unexpected internal error occurred. Please check server logs.")

\* what handle_chat_query makes of the way query_rag ended
ResponseFor(outcome) ==
    IF outcome.kind = "returned"
    THEN IF Truthy(Get(outcome.value, "error", None))
         THEN HTTPException(500, outcome.value.error)
         ELSE ChatQueryResponse(Get(outcome.value, "answer", "No answer found."),
                                Get(outcome.value, "sources", <<>>))
    ELSE IF outcome.type = "FileNotFoundError"
    THEN HTTPException(500, "Server error: A required file was not found: " \o outcome.message)
    ELSE HTTPException(500, "An unexpected internal error occurred. Please check server logs.")

\* handle_chat_query from the return of query_rag on
handle_result ==
    /\ pc = "handle_result"
    /\ response' = ResponseFor(rag_outcome)
    /\ pc' = "done"
    /\ UNCHANGED <<envVars, entry, request, rag_calls, rag_outcome, load_attempts, llm_calls, chainVars, procVars>>

Next ==
    \/ \E v \in EnvKeys : SetEnvKey(v)
    \/ \E query \in Questions, role \in RoleInputs : ReceiveChatQuery(query, role)
    \/ \E query \in Questions, role \in RoleInputs : CallQueryRag(query, role)
    \/ handle_chat_query
    \/ qr_check_key
    \/ qr_check_store
    \/ qr_load
    \/ qr_build_chain
    \/ handle_result

Spec == Init /\ [][Next]_vars

(***************************************************************************)
(* SpecConcurrent: two query threads.  Each query_rag call loads the index *)
(* into a local of its own and runs the chain stages on its own input; the *)
(* threads share the persisted index and the role mapping.                 *)
(***************************************************************************)
InitConcurrent ==
    /\ env_key = "test_api_key"
    /\ store_exists = TRUE
    /\ vector_store \in SpecStores
    /\ binding = "rag_pipeline"
    /\ provider = "responds"
    /\ IdleRequest
    /\ ChainAtStart
    /\ threads = [t \in Threads |-> IdleThread]
    /\ NoBatch

\* query_rag(user_query, user_role) is entered on thread t
ThreadReceive(t, question, role) ==
    /\ threads[t].pc \in {"idle", "prepared"}
    /\ threads' = [threads EXCEPT ![t] =
                      [IdleThread EXCEPT !.pc = "received",
                                         !.input_dict = [question |-> question, role |-> role]]]
    /\ UNCHANGED <<envVars, reqVars, chainVars, resources, ingest, disk, reader>>

\* vector_store = FAISS.load_local(...): a local of the call
ThreadLoad(t) ==
    /\ threads[t].pc = "received"
    /\ threads' = [threads EXCEPT ![t].pc = "loaded", ![t].vector_store = vector_store]
    /\ UNCHANGED <<envVars, reqVars, chainVars, resources, ingest, disk, reader>>

\* faulty variant: the role is kept in one place for all threads, and the
\* stage reads the role of whichever request is also in flight
StageInput_SharedRole(t) ==
    LET other == CHOOSE u \in Threads : u # t
    IN  IF threads[other].pc # "idle"
        THEN [threads[t].input_dict EXCEPT !.role = threads[other].input_dict.role]
        ELSE threads[t].input_dict

\* the input_dict the chain of thread t is invoked with
StageInput(t) == threads[t].input_dict

\* faulty variant: the retrieval works on the shared index and takes the
\* chunks it returns out of it
ThreadFilter_ConsumesIndex(t) ==
    /\ threads[t].pc = "loaded"
    /\ LET d == StageInput(t)
           r == _get_filtered_docs(d, vector_store)
       IN  /\ threads' = [threads EXCEPT ![t].pc = "filtered",
                                         ![t].allowed_sources = get_allowed_documents(d.role),
                                         ![t].filtered_docs = r.docs]
           /\ vector_store' = SelectSeq(vector_store, LAMBDA doc : doc \notin Range(r.docs))
    /\ UNCHANGED <<env_key, store_exists, binding, provider, reqVars, chainVars, resources, ingest, disk, reader>>

\* first stage of the chain of thread t
ThreadFilter(t) ==
    /\ threads[t].pc = "loaded"
    /\ LET d == StageInput(t)
           r == _get_filtered_docs(d, threads[t].vector_store)
       IN  threads' = [threads EXCEPT ![t].pc = "filtered",
                                      ![t].allowed_sources = get_allowed_documents(d.role),
                                      ![t].filtered_docs = r.docs]
    /\ UNCHANGED <<envVars, reqVars, chainVars, resources, ingest, disk, reader>>

\* second stage of the chain of thread t
ThreadPrepare(t) ==
    /\ threads[t].pc = "filtered"
    /\ threads' = [threads EXCEPT ![t].pc = "prepared",
                                  ![t].sources =
                                      PrepareStage([filtered_docs |-> threads[t].filtered_docs,
                                                    original_input |-> StageInput(t)]).sources]
    /\ UNCHANGED <<envVars, reqVars, chainVars, resources, ingest, disk, reader>>

NextConcurrent ==
    \/ \E t \in Threads, question \in Questions, role \in RoleInputs :
          ThreadReceive(t, question, role)
    \/ \E t \in Threads : ThreadLoad(t)
    \/ \E t \in Threads : ThreadFilter(t)
    \/ \E t \in Threads : ThreadPrepare(t)

SpecConcurrent == InitConcurrent /\ [][NextConcurrent]_vars

(***************************************************************************)
(* SpecIngest: src/ingest_data.py, step by step, and a query_rag call that *)
(* checks for the index and loads it while the build runs.                 *)
(***************************************************************************)
\* str.endswith(suffix) and the substring test `sub in text`
EndsWith(text, suffix) ==
    /\ Len(suffix) <= Len(text)
    /\ SubSeq(text, Len(text) - Len(suffix) + 1, Len(text)) = suffix
Contains(text, sub) ==
    \E i \in 1..(Len(text) - Len(sub) + 1) : SubSeq(text, i, i + Len(sub) - 1) = sub

\* the contents of a file: its text (TextLoader), or its rows (CSVLoader)
TextFile(text) == [kind |-> "text", text |-> text]
RowsFile(rows) == [kind |-> "rows", rows |-> rows]
Unreadable == [kind |-> "unreadable"]

\* the states of resources/data the build is run on: nothing there; the
\* handbook; the handbook, the HR table and a finance file that cannot be
\* decoded; an empty handbook; nothing but a file that cannot be decoded;
\* every file of the catalogue
FileSystems ==
    { NoResources,
      [NoResources EXCEPT ![GENERAL_FILES[1]] = TextFile("handbook")],
      [NoResources EXCEPT ![GENERAL_FILES[1]] = TextFile("handbook"),
                          ![HR_FILES[1]] = RowsFile(<< "hr row", "hr row" >>),
                          ![FINANCE_FILES[1]] = Unreadable],
      [NoResources EXCEPT ![GENERAL_FILES[1]] = TextFile("")],
      [NoResources EXCEPT ![FINANCE_FILES[1]] = Unreadable],
      [path \in Range(ALL_FILES) |->
          IF EndsWith(path, ".csv") THEN RowsFile(<< "hr row" >>) ELSE TextFile("report")] }

\* the body of the loop over ALL_FILES for one file: the documents it adds
LoadFile(file_path, file) ==
    IF file.kind = "missing" THEN <<>>
    ELSE IF EndsWith(file_path, ".csv")
    THEN IF file.kind # "rows" THEN <<>>
         ELSE IF Contains(file_path, "hr_data.csv")
         THEN [i \in 1..Len(file.rows) |->
                  Document(file.rows[i], [source |-> file_path, row |-> i])]
         ELSE [i \in 1..Len(file.rows) |->
                  Document(file.rows[i], [source |-> file_path, row |-> i - 1])]
    ELSE IF EndsWith(file_path, ".md")
    THEN IF file.kind # "text" THEN <<>>
         ELSE << Document(file.text, [source |-> file_path]) >>
    ELSE <<>>

\* the loop over ALL_FILES
RECURSIVE LoadAll(_, _)
LoadAll(files, fs) ==
    IF files = <<>> THEN <<>>
    ELSE LoadFile(Head(files), fs[Head(files)]) \o LoadAll(Tail(files), fs)

\* RecursiveCharacterTextSplitter(chunk_size=1000, chunk_overlap=200) on
\* documents shorter than chunk_size: one chunk per document with text, none
\* for a document without
split_documents(docs) == SelectSeq(docs, LAMBDA doc : doc.page_content # "")

\* the index a previous build left behind
OldBuild == << Document("handbook of last year", [source |-> GENERAL_FILES[1]]) >>

InitIngest ==
    /\ env_key = "test_api_key"
    /\ store_exists \in BOOLEAN
    /\ vector_store = IF store_exists THEN OldBuild ELSE <<>>
    /\ binding = "rag_pipeline"
    /\ provider = "responds"
    /\ IdleRequest
    /\ ChainAtStart
    /\ threads = [t \in Threads |-> IdleThread]
    /\ resources \in FileSystems
    /\ ingest = IdleIngest
    /\ disk = DiskOf(store_exists, vector_store)
    /\ reader = IdleReader

\* faulty variant: a build that loaded nothing raises
IngestEarlyExit_Raises(all_docs_content) ==
    IF all_docs_content = <<>>
    THEN Raised("IngestionError", "No documents were loaded.")
    ELSE NoOutcome

\* `if not all_docs_content: print(...); return`: the early return, or NoOutcome
IngestEarlyExit(all_docs_content) ==
    IF all_docs_content = <<>> THEN Returned(None) ELSE NoOutcome

\* ingest_data: the loop over ALL_FILES and the check of what it loaded
ingest_load_files ==
    /\ ingest.pc = "idle"
    /\ LET docs  == LoadAll(ALL_FILES, resources)
           early == IngestEarlyExit(docs)
       IN  ingest' = [ingest EXCEPT !.all_docs_content = docs,
                                    !.outcome = early,
                                    !.pc = IF early # NoOutcome THEN "done" ELSE "split"]
    /\ UNCHANGED <<envVars, reqVars, chainVars, threads, resources, disk, reader>>

\* ingest_data: the splitter, HuggingFaceEmbeddings(...) and
\* FAISS.from_documents(chunks, embeddings).  The embedding model is loaded or
\* the constructor raises; what from_documents does with no chunk at all is
\* left open (it raises, or it builds an index of nothing).
ingest_build ==
    /\ ingest.pc = "split"
    /\ LET chunks == split_documents(ingest.all_docs_content)
       IN  \E reachable \in BOOLEAN, built \in BOOLEAN :
              /\ (chunks # <<>>) => built
              /\ ingest' =
                    IF ~reachable
                    THEN [ingest EXCEPT !.chunks = chunks, !.provider = "unreachable",
                                        !.outcome = Raised("OSError", "model download failed"),
                                        !.pc = "done"]
                    ELSE IF ~built
                    THEN [ingest EXCEPT !.chunks = chunks, !.provider = "ok",
                                        !.outcome = Raised("IndexError", "list index out of range"),
                                        !.pc = "done"]
                    ELSE [ingest EXCEPT !.chunks = chunks, !.provider = "ok",
                                        !.pc = "save_mkdir"]
    /\ UNCHANGED <<envVars, reqVars, chainVars, threads, resources, disk, reader>>

\* ingest_data: os.makedirs(store_dir) and the directory save_local creates
save_mkdir ==
    /\ ingest.pc = "save_mkdir"
    /\ store_exists' = TRUE
    /\ ingest' = [ingest EXCEPT !.pc = "save_faiss"]
    /\ UNCHANGED <<env_key, vector_store, binding, provider, reqVars, chainVars, threads, resources, disk, reader>>

\* save_local: index.faiss is opened for writing
save_faiss_open ==
    /\ ingest.pc = "save_faiss"
    /\ disk' = [disk EXCEPT !.faiss = Partial]
    /\ ingest' = [ingest EXCEPT !.pc = "save_faiss_write"]
    /\ UNCHANGED <<envVars, reqVars, chainVars, threads, resources, reader>>

\* save_local: index.faiss is written
save_faiss_close ==
    /\ ingest.pc = "save_faiss_write"
    /\ disk' = [disk EXCEPT !.faiss = Complete(ingest.chunks)]
    /\ ingest' = [ingest EXCEPT !.pc = "save_pkl"]
    /\ UNCHANGED <<envVars, reqVars, chainVars, threads, resources, reader>>

\* save_local: index.pkl is opened for writing
save_pkl_open ==
    /\ ingest.pc = "save_pkl"
    /\ disk' = [disk EXCEPT !.pkl = Partial]
    /\ ingest' = [ingest EXCEPT !.pc = "save_pkl_write"]
    /\ UNCHANGED <<envVars, reqVars, chainVars, threads, resources, reader>>

\* save_local: index.pkl is written, and ingest_data returns
save_pkl_close ==
    /\ ingest.pc = "save_pkl_write"
    /\ disk' = [disk EXCEPT !.pkl = Complete(ingest.chunks)]
    /\ ingest' = [ingest EXCEPT !.pc = "done", !.outcome = Returned(None)]
    /\ UNCHANGED <<envVars, reqVars, chainVars, threads, resources, reader>>

\* a query_rag call arrives at its index check
ReaderStart ==
    /\ reader.pc \in {"idle", "done"}
    /\ reader' = [pc |-> "check", observed |-> [kind |-> "none"]]
    /\ UNCHANGED <<envVars, reqVars, chainVars, threads, resources, ingest, disk>>

\* query_rag: os.path.exists(VECTOR_STORE_PATH)
reader_check_store ==
    /\ reader.pc = "check"
    /\ reader' = IF ~store_exists
                 THEN [pc |-> "done", observed |-> [kind |-> "not_found"]]
                 ELSE [reader EXCEPT !.pc = "load"]
    /\ UNCHANGED <<envVars, reqVars, chainVars, threads, resources, ingest, disk>>

\* query_rag: FAISS.load_local reads index.faiss and index.pkl; it raises on
\* a file that is not there or not written to its end
reader_load ==
    /\ reader.pc = "load"
    /\ reader' =
          [ pc |-> "done",
            observed |->
                IF disk.faiss.state = "complete" /\ disk.pkl.state = "complete"
                THEN [kind |-> "loaded", index |-> disk.faiss.build, docstore |-> disk.pkl.build]
                ELSE [kind |-> "load_error"] ]
    /\ UNCHANGED <<envVars, reqVars, chainVars, threads, resources, ingest, disk>>

NextIngest ==
    \/ ingest_load_files
    \/ ingest_build
    \/ save_mkdir
    \/ save_faiss_open
    \/ save_faiss_close
    \/ save_pkl_open
    \/ save_pkl_close
    \/ ReaderStart
    \/ reader_check_store
    \/ reader_load

SpecIngest == InitIngest /\ [][NextIngest]_vars

(***************************************************************************)
(* Properties of the chain stages (checked under SpecChain)                *)
(***************************************************************************)
\* C1: every chunk _get_filtered_docs returns, for any role, question and
\* index content, carries a source that is a member of
\* get_allowed_documents(role); for hr_team only chunks of the HR file and of
\* the general file are kept, wherever they stand in the similarity ranking.
C1_AuthorizationInvariant ==
    chain_pc # "start" =>
        /\ \A i \in 1..Len(filtered_docs) :
              /\ "source" \in DOMAIN filtered_docs[i].metadata
              /\ filtered_docs[i].metadata.source
                    \in Range(get_allowed_documents(input_dict.role))
        /\ input_dict.role = "hr_team" =>
              \A i \in 1..Len(filtered_docs) :
                  filtered_docs[i].metadata.source
                      \in { "resources/data/hr/hr_data.csv",
                            "resources/data/general/employee_handbook.md" }

\* hr_team asked, a finance chunk ranked first, and something was kept
C1_Witness ==
    /\ chain_pc = "filtered"
    /\ input_dict.role = "hr_team"
    /\ Len(vector_store) >= 2
    /\ Get(Ranked(vector_store, input_dict.question)[1].metadata, "source", None)
          = "resources/data/finance/financial_summary.md"
    /\ filtered_docs # <<>>
    /\ Len(filtered_docs) < Len(vector_store)

\* C4: when the allowed set of the role is empty, _get_filtered_docs returns
\* the empty list and makes no similarity search.
C4_EmptyAllowedNoSearch ==
    (chain_pc # "start" /\ get_allowed_documents(input_dict.role) = <<>>) =>
        /\ filtered_docs = <<>>
        /\ search_calls = 0

\* a role without documents asked over a non-empty index
C4_Witness ==
    /\ chain_pc = "prepared"
    /\ input_dict.role = "unknown_role"
    /\ allowed_sources = <<>>
    /\ vector_store # <<>>
    /\ filtered_docs = <<>>
    /\ search_calls = 0

\* C5: the configured roles are exactly the six named ones and
\* get_allowed_documents returns for each exactly the listed files
\* (compared as the tests do, as collections without regard to order).
C5_RoleMapping ==
    LET fin == { "resources/data/finance/financial_summary.md",
                 "resources/data/finance/quarterly_financial_report.md" }
        mkt == { "resources/data/marketing/market_report_q4_2024.md",
                 "resources/data/marketing/marketing_report_2024.md",
                 "resources/data/marketing/marketing_report_q1_2024.md",
                 "resources/data/marketing/marketing_report_q2_2024.md",
                 "resources/data/marketing/marketing_report_q3_2024.md" }
        hr  == { "resources/data/hr/hr_data.csv" }
        eng == { "resources/data/engineering/engineering_master_doc.md" }
        gen == { "resources/data/general/employee_handbook.md" }
        expected ==
            [ finance_team |-> fin \cup { "resources/data/marketing/marketing_report_2024.md" } \cup gen,
              marketing_team |-> mkt,
              hr_team |-> hr \cup gen,
              engineering_department |-> eng,
              c_level_executives |-> eng \cup fin \cup gen \cup hr \cup mkt,
              employee_level |-> gen ]
    IN  /\ DOMAIN ROLE_PERMISSIONS =
              { "finance_team", "marketing_team", "hr_team",
                "engineering_department", "c_level_executives", "employee_level" }
        /\ (chain_pc # "start" /\ input_dict.role \in DOMAIN expected) =>
              /\ Range(allowed_sources) = expected[input_dict.role]
              /\ Len(allowed_sources) = Cardinality(expected[input_dict.role])

\* the allowed documents of finance_team were looked up
C5_Witness ==
    /\ chain_pc = "filtered"
    /\ input_dict.role = "finance_team"
    /\ Len(allowed_sources) = 4

\* C6: get_allowed_documents("employee_level") is a strict subset of
\* get_allowed_documents("c_level_executives").
C6_EmployeeStrictSubsetOfExecutives ==
    /\ (chain_pc # "start" /\ input_dict.role = "employee_level") =>
          /\ Range(allowed_sources) \subseteq Range(get_allowed_documents("c_level_executives"))
          /\ \E d \in Range(get_allowed_documents("c_level_executives")) :
                d \notin Range(allowed_sources)
    /\ (chain_pc # "start" /\ input_dict.role = "c_level_executives") =>
          /\ Range(get_allowed_documents("employee_level")) \subseteq Range(allowed_sources)
          /\ \E d \in Range(allowed_sources) :
                d \notin Range(get_allowed_documents("employee_level"))

\* employee_level was looked up and sees the handbook only
C6_Witness ==
    /\ chain_pc = "filtered"
    /\ input_dict.role = "employee_level"
    /\ allowed_sources = << "resources/data/general/employee_handbook.md" >>

\* C18: for a role with a non-empty allowed set the retrieval result is the
\* top-k (k = 10) ranking with the chunks of sources that are not allowed
\* removed: the chunks at the allowed positions among the first k of the
\* ranking, in ranking order, at most k of them, none from beyond position k.
C18_TopKThenFilter ==
    (chain_pc # "start" /\ allowed_sources # <<>>) =>
        LET ranking == Ranked(vector_store, input_dict.question)
            top     == IF Len(ranking) < 10 THEN Len(ranking) ELSE 10
            keep    == { i \in 1..top :
                           /\ "source" \in DOMAIN ranking[i].metadata
                           /\ ranking[i].metadata.source \in Range(allowed_sources) }
            pick[n \in 0..top] ==
                IF n = 0 THEN <<>>
                ELSE IF n \in keep THEN Append(pick[n - 1], ranking[n])
                ELSE pick[n - 1]
        IN  /\ filtered_docs = pick[top]
            /\ Len(filtered_docs) <= 10

\* an allowed chunk ranked eleventh was left out, the allowed ones of the
\* first ten were kept
C18_Witness ==
    /\ chain_pc = "filtered"
    /\ input_dict.role = "employee_level"
    /\ Len(vector_store) = 11
    /\ Ranked(vector_store, input_dict.question)[11].metadata.source
          = "resources/data/general/employee_handbook.md"
    /\ Len(filtered_docs) = 4
    /\ Cardinality({ i \in 1..11 : vector_store[i].metadata.source
                                      = "resources/data/general/employee_handbook.md" }) = 5

\* C19: format_docs_for_context gives the fixed sentinel for an empty chunk
\* list; otherwise one block per chunk, in order, separated by blank lines,
\* each "Source: <source>" (with " (Row: <n>)" when the chunk has a row) and
\* then the chunk text; chunks of one source are all kept although the
\* sources list names the source once.
C19_ContextFormat ==
    chain_pc = "prepared" =>
        LET n == Len(filtered_docs)
            digits == << "1", "2", "3", "4", "5", "6", "7", "8", "9" >>
            block(i) ==
                LET doc == filtered_docs[i]
                IN  IF "row" \in DOMAIN doc.metadata
                    THEN "Source: " \o doc.metadata.source \o " (Row: "
                            \o digits[doc.metadata.row] \o ")\n" \o doc.page_content
                    ELSE "Source: " \o doc.metadata.source \o "\n" \o doc.page_content
            ctx[k \in 1..n] ==
                IF k = 1 THEN block(1) ELSE ctx[k - 1] \o "\n\n" \o block(k)
        IN  /\ n = 0 => stage2.context = "No documents found or provided for context."
            /\ n > 0 => stage2.context = ctx[n]
            /\ Len(stage2.sources) = Cardinality({ filtered_docs[i].metadata.source : i \in 1..n })

\* two rows of the HR file and the handbook are in the context, the sources
\* list names two files
C19_Witness ==
    /\ chain_pc = "prepared"
    /\ input_dict.role = "hr_team"
    /\ Len(filtered_docs) = 3
    /\ Len(stage2.sources) = 2
    /\ "row" \in DOMAIN filtered_docs[1].metadata
    /\ "row" \in DOMAIN filtered_docs[2].metadata
    /\ filtered_docs[1] # filtered_docs[2]
    /\ stage2.context =
          "Source: resources/data/hr/hr_data.csv (Row: 1)\nhr row\n\n"
          \o "Source: resources/data/hr/hr_data.csv (Row: 2)\nhr row\n\n"
          \o "Source: resources/data/general/employee_handbook.md\nhandbook"

C15_NoInterference ==
    \A t \in Threads :
        LET th    == threads[t]
            alone == _get_filtered_docs(th.input_dict, vector_store).docs
        IN  /\ th.pc \in {"loaded", "filtered", "prepared"} => th.vector_store = vector_store
            /\ th.pc \in {"filtered", "prepared"} =>
                  /\ th.filtered_docs = alone
                  /\ th.allowed_sources = get_allowed_documents(th.input_dict.role)
                  /\ \A i \in 1..Len(th.filtered_docs) :
                        th.filtered_docs[i].metadata.source
                            \in Range(get_allowed_documents(th.input_dict.role))
            /\ th.pc = "prepared" => th.sources = SourcesOf(alone)

\* an hr_team query and a finance_team query ran side by side, the second
\* filtered while the first was between its stages, and each holds its own
\* documents
C15_Witness ==
    /\ threads["thread-1"].pc = "filtered"
    /\ threads["thread-2"].pc = "prepared"
    /\ threads["thread-1"].input_dict.role = "hr_team"
    /\ threads["thread-2"].input_dict.role = "finance_team"
    /\ threads["thread-1"].input_dict.question = threads["thread-2"].input_dict.question
    /\ Len(threads["thread-1"].filtered_docs) = 3
    /\ threads["thread-2"].sources
          = << "resources/data/finance/financial_summary.md",
               "resources/data/general/employee_handbook.md" >>
    /\ threads["thread-1"].filtered_docs # threads["thread-2"].filtered_docs

(***************************************************************************)
(* Properties of the index build (checked under SpecIngest)                *)
(***************************************************************************)
\* C16: the persisted index is replaced atomically: whatever a query that
\* checked for and loaded the index has observed, where a build replaces the
\* index of a previous build, is the complete previous index or the complete
\* new index, never a missing, partially written or mixed one.
C16_AtomicReplacement ==
    (reader.pc = "done" /\ vector_store # <<>>) =>
        \/ reader.observed = [kind |-> "loaded", index |-> vector_store, docstore |-> vector_store]
        \/ /\ ingest.pc \notin {"idle", "split"}
           /\ reader.observed = [kind |-> "loaded", index |-> ingest.chunks, docstore |-> ingest.chunks]

\* C17, as stated: a build that loaded no document fails with an error.
C17_EmptyInputRaises ==
    (ingest.pc = "done" /\ ingest.all_docs_content = <<>>) => ingest.outcome.kind = "raised"

\* C17, amended: a build that loaded no document returns without an error,
\* without trying the embedding provider and without touching the stored
\* index; a build whose embedding provider is unreachable raises and leaves
\* the stored index as it was; a build that loaded documents, reached the
\* provider and got at least one chunk returns without an error, and the
\* index directory then holds the new chunks in place of any previous index.
C17_BuildOutcome ==
    LET prior == DiskOf(vector_store # <<>>, vector_store)
    IN  ingest.pc = "done" =>
            /\ ingest.all_docs_content = <<>> =>
                  /\ ingest.outcome = [kind |-> "returned", value |-> None]
                  /\ ingest.provider = "untried"
                  /\ disk = prior
                  /\ store_exists = (vector_store # <<>>)
            /\ ingest.provider = "unreachable" =>
                  /\ ingest.outcome.kind = "raised"
                  /\ disk = prior
                  /\ store_exists = (vector_store # <<>>)
            /\ (ingest.all_docs_content # <<>> /\ ingest.provider = "ok" /\ ingest.chunks # <<>>) =>
                  /\ ingest.outcome = [kind |-> "returned", value |-> None]
                  /\ store_exists
                  /\ disk = [ faiss |-> [state |-> "complete", build |-> ingest.chunks],
                              pkl   |-> [state |-> "complete", build |-> ingest.chunks] ]
                  /\ disk # prior

\* a build of the handbook and the two HR rows has replaced the index of a
\* previous build
C17_Witness ==
    /\ ingest.pc = "done"
    /\ vector_store # <<>>
    /\ Len(ingest.all_docs_content) = 3
    /\ Len(ingest.chunks) = 3
    /\ ingest.chunks[2].metadata = [source |-> "resources/data/hr/hr_data.csv", row |-> 1]
    /\ ingest.outcome.kind = "returned"
    /\ disk.faiss = [state |-> "complete", build |-> ingest.chunks]
    /\ disk.pkl = [state |-> "complete", build |-> ingest.chunks]

\* C22: the role mapping and the ingested document set agree: the union of
\* the roles' allowed documents is the set of files ingestion reads
\* (ALL_FILES), which is the c_level_executives set; every role's allowed set
\* lies within it; every document ingestion has loaded is visible to at least
\* one role; and a build that finds every file loads every document any role
\* is allowed to see.
C22_MappingAgreesWithIngestion ==
    LET roles    == DOMAIN ROLE_PERMISSIONS
        visible  == UNION { Range(get_allowed_documents(r)) : r \in roles }
        read     == DOMAIN resources
        ingested == { ingest.all_docs_content[i].metadata.source :
                        i \in 1..Len(ingest.all_docs_content) }
    IN  /\ read = Range(ALL_FILES)
        /\ visible = read
        /\ Range(get_allowed_documents("c_level_executives")) = read
        /\ \A r \in roles :
              Range(get_allowed_documents(r))
                  \subseteq Range(get_allowed_documents("c_level_executives"))
        /\ ingested \subseteq visible
        /\ (ingest.pc # "idle" /\ \A path \in read : resources[path].kind \in {"text", "rows"})
              => ingested = visible

\* a build found all ten files of the catalogue and loaded a document of each
C22_Witness ==
    /\ ingest.pc = "done"
    /\ ingest.outcome.kind = "returned"
    /\ \A path \in DOMAIN resources : resources[path].kind \in {"text", "rows"}
    /\ Len(ingest.all_docs_content) = 10
    /\ Cardinality({ ingest.all_docs_content[i].metadata.source : i \in 1..10 }) = 10

(***************************************************************************)
(* Properties of the served program (checked under Spec)                   *)
(***************************************************************************)
\* the request was served by query_rag of src/rag_pipeline.py
RealPipeline == entry = "direct" \/ (entry = "api" /\ binding = "rag_pipeline")

\* C2: the sources list query_rag returns is the sorted, duplicate-free list of
\* the sources of the filtered chunks, hence a subset of the role's allowed
\* documents: a query_rag call that got past the credential check, the index
\* check and the index load returns such a list.
C2_SourcesFromFilteredDocs ==
    LET loadFailed ==
            /\ rag_outcome.kind = "returned"
            /\ \E e \in LoadErrors :
                  rag_outcome.value.answer = "Error loading vector store or embeddings: " \o e
        filtered ==
            _get_filtered_docs([question |-> request.query, role |-> request.role],
                               vector_store).docs
    IN  (pc = "done" /\ RealPipeline /\ load_attempts = 1 /\ ~loadFailed) =>
            /\ rag_outcome.kind = "returned"
            /\ rag_outcome.value.sources = SourcesOf(filtered)
            /\ Range(rag_outcome.value.sources)
                  \subseteq Range(get_allowed_documents(request.role))

\* C3: a role that is no key of the mapping has no allowed documents, and a
\* query_rag call made with it ends with sources == [] and never with an
\* exception.
C3_UnknownRoleQuery ==
    /\ \A role \in RoleInputs \ DOMAIN ROLE_PERMISSIONS : get_allowed_documents(role) = <<>>
    /\ (/\ pc = "done"
        /\ RealPipeline
        /\ rag_calls # <<>>
        /\ request.role \notin DOMAIN ROLE_PERMISSIONS) =>
          /\ rag_outcome.kind = "returned"
          /\ rag_outcome.value.sources = <<>>
          /\ entry = "api" => (response.status = 200 /\ response.sources = <<>>)

\* query_rag ended in the except branch of the index load
LoadFailed ==
    /\ load_attempts = 1
    /\ rag_outcome.kind = "returned"
    /\ \E e \in LoadErrors :
          rag_outcome.value.answer = "Error loading vector store or embeddings: " \o e

\* C11, as stated: every failure of a request (credential missing, index
\* missing, index load failure, chain construction failure) ends in a
\* structured result that has an answer field and an error field, and the
\* failure is told by the error field.
C11_StructuredResultAlways ==
    (pc = "done" /\ entry = "api") =>
        /\ response.kind = "http"
        /\ "answer" \in DOMAIN response
        /\ "error" \in DOMAIN response
        /\ (~Truthy(env_key) \/ ~store_exists \/ LoadFailed \/ rag_outcome.kind = "raised")
              => Truthy(response.error)

\* C11, amended: no failure leaves the endpoint as an unhandled fault: every
\* finished request has an HTTP response, which is either 200 with answer,
\* sources and a null error, or 500 with a non-empty detail and neither answer
\* nor error field.  A missing credential, a missing index, an exception out
\* of query_rag and a result with an error field give 500; a failed index
\* load gives 200 with the failure told in the answer text.
C11_FailuresBecomeHttpResponses ==
    (pc = "done" /\ entry = "api") =>
        /\ response.kind = "http"
        /\ response.status \in {200, 500}
        /\ response.status = 200 =>
              /\ DOMAIN response = {"kind", "status", "answer", "sources", "error"}
              /\ response.error = None
        /\ response.status = 500 =>
              /\ DOMAIN response = {"kind", "status", "detail"}
              /\ Truthy(response.detail)
        /\ (~Truthy(env_key) \/ ~store_exists \/ rag_outcome.kind = "raised")
              => response.status = 500
        /\ (rag_outcome.kind = "returned" /\ Truthy(Get(rag_outcome.value, "error", None)))
              => response.status = 500
        /\ LoadFailed =>
              /\ response.status = 200
              /\ response.answer = rag_outcome.value.answer

\* the exception of the chain construction was answered with HTTP 500
C11_Witness ==
    /\ pc = "done"
    /\ entry = "api"
    /\ binding = "rag_pipeline"
    /\ rag_outcome.kind = "raised"
    /\ rag_outcome.type = "NameError"
    /\ response = [ kind |-> "http", status |-> 500,
                    detail |-> "An unexpected internal error occurred. Please check server logs." ]

\* C12: after an internal failure other than a missing credential or a
\* missing index (a failed index load, an exception out of query_rag) the
\* response is the generic internal error and no field of it contains the
\* text of the exception.
C12_NoExceptionTextInResponse ==
    LET body == IF response.status = 200 THEN response.answer ELSE response.detail
        exceptionTexts ==
            IF rag_outcome.kind = "raised" THEN {rag_outcome.message} ELSE LoadErrors
    IN  (/\ pc = "done"
         /\ entry = "api"
         /\ binding = "rag_pipeline"
         /\ LoadFailed \/ rag_outcome.kind = "raised") =>
            /\ response = [ kind |-> "http", status |-> 500,
                            detail |-> "An unexpected internal error occurred. Please check server logs." ]
            /\ \A e \in exceptionTexts : ~Contains(body, e)

\* C13: the generator is invoked at most once per query: not at all for a
\* query that failed at the credential check or the index check, and exactly
\* once for a query that got past both checks and the index load.
C13_GeneratorOncePerQuery ==
    /\ llm_calls <= 1
    /\ (pc = "done" /\ RealPipeline /\ (~Truthy(env_key) \/ ~store_exists)) => llm_calls = 0
    /\ (pc = "done" /\ RealPipeline /\ load_attempts = 1 /\ ~LoadFailed) => llm_calls = 1

\* C20: a finished query has followed the per-query state machine: it is
\* Failed after a configuration or provider error (credential, index, index
\* load), and otherwise it is Completed, having gone through the lookup of
\* the allowed set and the filtering before its one generator call.
C20_FollowsStateMachine ==
    LET configurationError == ~Truthy(env_key) \/ ~store_exists \/ LoadFailed
        failed    == rag_outcome.kind = "raised" \/ (entry = "api" /\ response.status = 500)
        completed == /\ rag_outcome.kind = "returned"
                     /\ entry = "api" => response.status = 200
    IN  (pc = "done" /\ RealPipeline) =>
            /\ failed => configurationError
            /\ ~configurationError =>
                  /\ completed
                  /\ chain_pc = "prepared"
                  /\ input_dict = [question |-> request.query, role |-> request.role]

\* C21: when the provider does not answer the call a request makes, the
\* request does not stay pending: it has a step to take, and it ends Failed
\* (HTTP 500) with a timeout error.
C21_ProviderSilenceEndsInTimeout ==
    (entry = "api" /\ binding = "rag_pipeline" /\ provider # "responds") =>
        /\ pc = "qr_load" => ENABLED qr_load
        /\ (pc = "done" /\ load_attempts = 1) =>
              /\ response.kind = "http"
              /\ response.status = 500
              /\ Contains(response.detail, "timed out")

\* C7: with OPENAI_API_KEY unset or empty, whether or not the index exists, the
\* request ends in a configuration error (HTTP 500 "... OPENAI_API_KEY not
\* set." at the endpoint, the early return at query_rag), the endpoint does
\* not call query_rag, and neither the index load nor the generator is tried.
C7_MissingCredential ==
    (pc # "idle" /\ ~Truthy(env_key)) =>
        /\ load_attempts = 0
        /\ llm_calls = 0
        /\ pc \notin {"qr_check_store", "qr_load", "qr_build_chain"}
        /\ entry = "api" => rag_calls = <<>>
        /\ (pc = "done" /\ entry = "api") =>
              response = [ kind |-> "http", status |-> 500,
                           detail |-> "Server configuration error: OPENAI_API_KEY not set." ]
        /\ (pc = "done" /\ entry = "direct") =>
              rag_outcome =
                  [ kind |-> "returned",
                    value |-> [ answer |-> "Error: OPENAI_API_KEY environment variable not set. Cannot query the LLM.",
                                sources |-> <<>> ] ]

\* a request to the endpoint ended with neither credential nor index
C7_Witness ==
    /\ pc = "done"
    /\ entry = "api"
    /\ env_key = None
    /\ ~store_exists
    /\ response.kind = "http"
    /\ response.status = 500

\* C8, as stated: a request handled while the index is absent ends with HTTP
\* 500 "... Vector store not found ..." and without a query_rag call.
C8_AbsentIndexAlwaysReadinessError ==
    (pc = "done" /\ entry = "api" /\ ~store_exists) =>
        /\ response = [ kind |-> "http", status |-> 500,
                        detail |-> "Server error: Vector store not found at vector_store/faiss_index. Please run ingestion." ]
        /\ rag_calls = <<>>

\* C8, amended: a request handled while the credential is set and the index
\* is absent is finished by the very next step of the handler, with HTTP 500
\* "... Vector store not found ..." and without a query_rag call.
C8_ReadinessError ==
    [][ (pc = "handle_chat_query" /\ Truthy(env_key) /\ ~store_exists) =>
            /\ pc' = "done"
            /\ response' = [ kind |-> "http", status |-> 500,
                             detail |-> "Server error: Vector store not found at vector_store/faiss_index. Please run ingestion." ]
            /\ rag_calls' = <<>> ]_vars

\* a request ended with the credential set and the index absent
C8_Witness ==
    /\ pc = "done"
    /\ entry = "api"
    /\ Truthy(env_key)
    /\ ~store_exists
    /\ response.kind = "http"
    /\ response.status = 500
    /\ rag_calls = <<>>

\* C9: when the result handed to the endpoint has a non-empty error field, the
\* response is HTTP 500 with that error string as its detail, and carries
\* neither the answer nor the sources of the result.
C9_ErrorFieldBecomes500 ==
    (/\ pc = "done"
     /\ entry = "api"
     /\ rag_outcome.kind = "returned"
     /\ Truthy(Get(rag_outcome.value, "error", None))) =>
        response = [ kind |-> "http", status |-> 500, detail |-> rag_outcome.value.error ]

\* the patched pipeline returned the error result of the API test
C9_Witness ==
    /\ pc = "done"
    /\ entry = "api"
    /\ rag_outcome = Returned([answer |-> "", sources |-> <<>>, error |-> "Internal RAG error"])
    /\ response.status = 500
    /\ response.detail = "Internal RAG error"

\* C10: with the credential set and the index present, when query_rag returns
\* a result without an error the endpoint has called it exactly once, with the
\* query and the role of the request, and answers HTTP 200 with the answer and
\* the sources of the result unchanged and a null error.
C10_SuccessPassesResultThrough ==
    (/\ pc = "done"
     /\ entry = "api"
     /\ rag_outcome.kind = "returned"
     /\ ~Truthy(Get(rag_outcome.value, "error", None))) =>
        /\ Truthy(env_key)
        /\ store_exists
        /\ rag_calls = << [user_query |-> request.query, user_role |-> request.role] >>
        /\ response.kind = "http"
        /\ response.status = 200
        /\ "answer" \in DOMAIN rag_outcome.value =>
              response.answer = rag_outcome.value.answer
        /\ "sources" \in DOMAIN rag_outcome.value =>
              response.sources = rag_outcome.value.sources
        /\ response.error = None

\* the endpoint passed on an answer with its source
C10_Witness ==
    /\ pc = "done"
    /\ entry = "api"
    /\ rag_outcome.kind = "returned"
    /\ response.kind = "http"
    /\ response.status = 200
    /\ response.answer = "The company profits are $X million."
    /\ response.sources = << "resources/data/finance/financial_summary.md" >>
    /\ request.role = "finance_team"

====
